---- MODULE Spec2Model ----
(***************************************************************************)
(* Process/scheduling core of the os5 kernel: the stride ready queue       *)
(* (task/manager.rs), the processor dispatch loop (task/processor.rs) and  *)
(* the process syscalls (syscall/process.rs).                              *)
(*                                                                         *)
(* One action is one whole kernel entry: a syscall handler runs from trap  *)
(* entry to its return (or to the __switch it ends in); the dispatch loop  *)
(* runs one iteration of run_tasks.  The kernel is single-core and not     *)
(* preempted in kernel mode, so these are the atomic steps of the code.    *)
(***************************************************************************)
EXTENDS Integers, Sequences, FiniteSets, Bags, TLC

(***************************************************************************)
(* Bounds of the model.                                                    *)
(***************************************************************************)
\* Number of pids the allocator can hand out (pids 0 .. NPids-1).
NPids == 3
\* Number of pages of the user mmap window that are tracked.
NPages == 2
\* Number of dispatches of one task that are followed.
MaxDispatch == 2
\* Number of address spaces followed with the address-space syscalls.
MemTasks == 2
\* Largest reading of the timer that is followed.
MaxTime == 2
\* File inodes the disk has room for, and entries the root directory may hold.
MaxInodes == 2
MaxEntries == 4
\* Largest nlink that is followed.
MaxNlink == 4
\* Number of dispatches followed in the two-task stride experiment.
StrideN == 26
\* Number of syscalls of one task that are counted.
MaxCalls == 3

(***************************************************************************)
(* Program constants.                                                      *)
(***************************************************************************)
\* Option::None for the processor's current slot and a task's parent link.
None == -1
\* config::PAGE_SIZE.
PAGE_SIZE == 4096
\* The fixed large constant of the stride algorithm, scaled down.
BIG_STRIDE == 16
\* The width of a pass value, scaled down: a pass lives in 0 .. PassModulus-1.
PassModulus == 64
\* The priority of a newly constructed task.
DefaultPrio == 16
\* The permission bits a map request may carry: R | W | X.
PortMask == 7
\* The pid of INITPROC, the first pid the allocator hands out.
InitPid == 0

Pids == 0 .. (NPids - 1)
Pages == 0 .. (NPages - 1)

\* The programs the loader knows by name.
Apps == {"initproc", "app"}

(***************************************************************************)
(* Inputs of the syscalls.                                                 *)
(***************************************************************************)
\* pid arguments of waitpid: -1 and the pids a child can have (any other
\* negative value is a huge usize and behaves like a pid nobody has).
WaitpidArgs == {-1} \cup (Pids \ {InitPid})
PrioArgs == {-1, 0, 1, 2, 4}
ExitCodes == {0, 1}
\* a0 of the caller at the ecall of a syscall that takes no argument
UserA0 == {0, 1}
PathArgs == {"app", "nosuch"}
StartArgs == {0, 1, PAGE_SIZE}
LenArgs == {1, PAGE_SIZE, 2 * PAGE_SIZE}
PortArgs == {0, 1, 3, 8, 11}
\* The syscalls whose slot of the syscall_times table is followed.
SyscallIds == {"yield", "fork", "exit", "waitpid", "task_info"}

VARIABLES
    live,         \* pids whose TaskControlBlock is allocated
    tcb,          \* pid -> the fields of its TaskControlBlock
    ready_queue,  \* TaskManager.ready_queue: a bag of pids
    current,      \* Processor.current: a pid or None
    panicked,     \* the kernel hit a failed assertion
    last,         \* the last kernel entry: operation, caller, inputs, result
    syscall_times, \* pid -> TaskControlBlockInner.syscall_times
    invoked,      \* history: pid -> syscall id -> calls made since the task began
    clock,        \* timer: the value get_time_us() returns
    borrowed,     \* the UPSafeCells: which are exclusively borrowed, and the
                  \* accesses of the last kernel entry
    root_dir,     \* easy-fs: the directory entries stored in the root inode
    disk_inodes,  \* easy-fs: inode id -> the fields of its DiskInode
    fs_call       \* easy-fs: the last call on the root Inode and its result

kernel_vars == <<live, tcb, ready_queue, current, panicked, last, syscall_times, invoked,
                 clock, borrowed>>

vars == <<live, tcb, ready_queue, current, panicked, last, syscall_times, invoked,
          clock, borrowed, root_dir, disk_inodes, fs_call>>

Range(s) == {s[i] : i \in 1 .. Len(s)}

\* The sequence s without its element at index idx (Vec::remove).
RemoveAt(s, idx) == [i \in 1 .. (Len(s) - 1) |-> IF i < idx THEN s[i] ELSE s[i + 1]]

(***************************************************************************)
(* Address space: the mmap window of a MemorySet, page -> permission bits  *)
(* (0: not mapped).                                                        *)
(***************************************************************************)
\* MemorySet::from_elf: the program's own areas lie outside the window.
FromElf(img) == [p \in Pages |-> 0]

\* VirtAddr::page_offset.
page_offset(va) == va % PAGE_SIZE

\* The pages of [start_va, end_va) for page-aligned bounds.
PagesOf(start_va, end_va) == {p \in Pages : start_va <= p * PAGE_SIZE /\ p * PAGE_SIZE < end_va}

\* Whether [start_va, end_va) stays inside the tracked window.
InWindow(start_va, end_va) == end_va <= NPages * PAGE_SIZE

\* MemorySet_map_ok with the end of the range not tested.
MemorySet_map_ok_anyend(ms, start_va, end_va, port) ==
    /\ page_offset(start_va) = 0
    /\ \A p \in PagesOf(start_va, end_va) : ms[p] = 0

\* MemorySet::map: 0 and the new mapping, or -1 and no change.
MemorySet_map_ok(ms, start_va, end_va, port) ==
    /\ page_offset(start_va) = 0
    /\ page_offset(end_va) = 0
    /\ \A p \in PagesOf(start_va, end_va) : ms[p] = 0

MemorySet_map(ms, start_va, end_va, port) ==
    IF MemorySet_map_ok(ms, start_va, end_va, port)
    THEN [ret |-> 0,
          ms  |-> [p \in Pages |-> IF p \in PagesOf(start_va, end_va) THEN port ELSE ms[p]]]
    ELSE [ret |-> -1, ms |-> ms]

\* MemorySet::unmap: 0 and the mapping removed, or -1 and no change.
MemorySet_unmap_ok(ms, start_va, end_va) ==
    /\ page_offset(start_va) = 0
    /\ page_offset(end_va) = 0
    /\ \A p \in PagesOf(start_va, end_va) : ms[p] # 0

MemorySet_unmap(ms, start_va, end_va) ==
    IF MemorySet_unmap_ok(ms, start_va, end_va)
    THEN [ret |-> 0,
          ms  |-> [p \in Pages |-> IF p \in PagesOf(start_va, end_va) THEN 0 ELSE ms[p]]]
    ELSE [ret |-> -1, ms |-> ms]

(***************************************************************************)
(* Task control blocks.                                                    *)
(***************************************************************************)
\* TaskControlBlock::new: a task built from a program image.
TCB_new(par, img) ==
    [task_status |-> "Ready",
     parent      |-> par,
     children    |-> <<>>,
     prio        |-> DefaultPrio,
     pass        |-> 0,
     x10         |-> 0,
     resume      |-> "trap_return",
     exit_code   |-> 0,
     memory_set  |-> FromElf(img),
     image       |-> img,
     started     |-> FALSE,
     start_time  |-> 0,
     dispatches  |-> 0]

\* The slot of a pid that names no task.
NoTCB == TCB_new(None, "initproc")

\* Pass::stride: the pass after one dispatch at priority p.
Pass_stride(pass, p) == (pass + (BIG_STRIDE \div p)) % PassModulus

\* Pass::cmp: the order of two passes as the heap sees it (a smaller pass is
\* the greater heap element, so that the max-heap pops the minimal pass).
Pass_cmp(a, b) == IF a < b THEN "Greater" ELSE IF a > b THEN "Less" ELSE "Equal"

\* HeapElement_cmp with self and other exchanged.
HeapElement_cmp_swapped(self, other) == Pass_cmp(tcb[other].pass, tcb[self].pass)

\* HeapElement::cmp: compares the passes of the two tasks.
HeapElement_cmp(self, other) == Pass_cmp(tcb[self].pass, tcb[other].pass)

\* BinaryHeap::pop: the tasks that may come out, the greatest heap elements.
\* Which of several equal ones comes out depends on the heap's layout.
BinaryHeap_pop(rq) ==
    {t \in BagToSet(rq) : \A u \in BagToSet(rq) : HeapElement_cmp(u, t) # "Greater"}

\* TaskManager::add.
TaskManager_add(rq, task) == rq (+) SetToBag({task})

\* TaskManager::fetch: the queue without one copy of the fetched task.
TaskManager_fetch(rq, task) == rq (-) SetToBag({task})

(***************************************************************************)
(* Arc<TaskControlBlock>: the owning references to a task.                 *)
(***************************************************************************)
\* Arc::strong_count of task t in a state given by its parts; INITPROC is
\* also held by a static for the kernel's lifetime.
strong_count(t, lv, tb, rq, cur) ==
    Cardinality({p \in lv : t \in Range(tb[p].children)})
    + CopiesIn(t, rq)
    + (IF cur = t THEN 1 ELSE 0)
    + (IF t = InitPid THEN 1 ELSE 0)

\* The tasks left once every task nobody owns is dropped (a dropped task
\* drops its children list, which may drop more).
RECURSIVE Sweep(_, _, _, _)
Sweep(lv, tb, rq, cur) ==
    LET dead == {t \in lv : strong_count(t, lv, tb, rq, cur) = 0}
    IN  IF dead = {} THEN lv ELSE Sweep(lv \ dead, tb, rq, cur)

\* The table with the slots of dropped tasks cleared; a Weak parent link to
\* a dropped task no longer upgrades.
Cleared(lv, tb) ==
    [t \in Pids |->
        IF t \notin lv THEN NoTCB
        ELSE IF tb[t].parent \in lv THEN tb[t]
        ELSE [tb[t] EXCEPT !.parent = None]]

(***************************************************************************)
(* The per-task syscall counters.                                          *)
(***************************************************************************)
\* The syscall_times table of a newly constructed task.
ZeroTimes == [s \in SyscallIds |-> 0]

\* TaskControlBlock::fork: the child's table given the parent's.
fork_syscall_times_copied(parent_times) == parent_times

fork_syscall_times(parent_times) == ZeroTimes

\* inc_task_syscall_times with = 1 written for += 1.
inc_task_syscall_times_set1(times, syscall_id) == [times EXCEPT ![syscall_id] = 1]

\* inc_task_syscall_times: the current task's table after the call (the
\* slots are u32; MaxCalls stays far below that width).
inc_task_syscall_times(times, syscall_id) == [times EXCEPT ![syscall_id] = @ + 1]

\* get_current_task_info: the syscall_times of the TaskInfo it builds.
get_current_task_info(times) == times

NoCall == [op |-> "boot", task |-> None, arg |-> 0, arg2 |-> 0, arg3 |-> 0, path |-> "", ret |-> 0, out |-> 0]

Call(op, task, arg, ret) == [NoCall EXCEPT !.op = op, !.task = task, !.arg = arg, !.ret = ret]

(***************************************************************************)
(* The exclusive-access cells.  A kernel entry is followed as the sequence *)
(* of accesses it makes to PROCESSOR, TASK_MANAGER and the inner cell of   *)
(* each TaskControlBlock: "hold" takes an exclusive access kept until its  *)
(* "drop", "touch" takes an exclusive access released within the same      *)
(* statement, "peek" takes a shared access (inner_inclusive_access)        *)
(* released within the same statement, "switch" is the call of __switch.   *)
(* Taking an access to a cell that is exclusively borrowed panics.         *)
(***************************************************************************)
PROCESSOR == <<"PROCESSOR", 0>>
TASK_MANAGER == <<"TASK_MANAGER", 0>>
Inner(task) == <<"inner", task>>

Hold(cell) == <<"hold", cell>>
Release(cell) == <<"drop", cell>>
Touch(cell) == <<"touch", cell>>
Peek(cell) == <<"peek", cell>>
Switch == <<"switch", PROCESSOR>>

\* No cell borrowed, no access made.
NoBorrows == [held |-> {}, failed |-> FALSE, at_switch |-> {}, compared |-> {}]

\* The cells after a sequence of accesses: held are the exclusive accesses
\* alive, at_switch those alive when __switch was called, compared the cells
\* the ready queue's comparisons read, failed whether an access panicked.
RECURSIVE Perform(_, _)
Perform(accesses, st) ==
    IF accesses = <<>> \/ st.failed THEN st
    ELSE LET a == Head(accesses)
             cell == a[2]
             next ==
                 CASE a[1] = "hold" ->
                          IF cell \in st.held THEN [st EXCEPT !.failed = TRUE]
                          ELSE [st EXCEPT !.held = @ \cup {cell}]
                   [] a[1] = "drop" -> [st EXCEPT !.held = @ \ {cell}]
                   [] a[1] = "touch" ->
                          IF cell \in st.held THEN [st EXCEPT !.failed = TRUE] ELSE st
                   [] a[1] = "peek" ->
                          IF cell \in st.held THEN [st EXCEPT !.failed = TRUE]
                          ELSE [st EXCEPT !.compared = @ \cup {cell}]
                   [] OTHER -> [st EXCEPT !.at_switch = st.held]
         IN  Perform(Tail(accesses), next)

\* HeapElement::cmp on the elements of a heap: each compared element is read
\* through inner_inclusive_access.  Any element may be compared.
RECURSIVE HeapElement_cmp_accesses(_)
HeapElement_cmp_accesses(tasks) ==
    IF tasks = {} THEN <<>>
    ELSE LET t == CHOOSE x \in tasks : TRUE
         IN  <<Peek(Inner(t))>> \o HeapElement_cmp_accesses(tasks \ {t})

\* current_task() and take_current_task().
current_task_accesses == <<Touch(PROCESSOR)>>

\* add_task(task) on a ready queue holding the tasks of queued.
add_task_accesses(queued, task) ==
    <<Hold(TASK_MANAGER)>>
    \o (IF queued = {} THEN <<>> ELSE HeapElement_cmp_accesses(queued \cup {task}))
    \o <<Release(TASK_MANAGER)>>

\* fetch_task() on a ready queue holding the tasks of queued.
fetch_task_accesses(queued) ==
    <<Hold(TASK_MANAGER)>>
    \o (IF Cardinality(queued) < 2 THEN <<>> ELSE HeapElement_cmp_accesses(queued))
    \o <<Release(TASK_MANAGER)>>

\* run_tasks_accesses with drop(processor) of line 73 left out.
run_tasks_accesses_nodrop(queued, task) ==
    <<Hold(PROCESSOR)>> \o fetch_task_accesses(queued)
    \o <<Hold(Inner(task)), Release(Inner(task)), Switch>>

\* run_tasks: one iteration that fetches task.
run_tasks_accesses(queued, task) ==
    <<Hold(PROCESSOR)>> \o fetch_task_accesses(queued)
    \o <<Hold(Inner(task)), Release(Inner(task)), Release(PROCESSOR), Switch>>

\* schedule.
schedule_accesses == <<Hold(PROCESSOR), Release(PROCESSOR), Switch>>

\* suspend_current_and_run_next.
suspend_accesses(queued, task) ==
    current_task_accesses
    \o <<Hold(Inner(task)), Release(Inner(task))>>
    \o add_task_accesses(queued, task)
    \o schedule_accesses

\* exit_current_and_run_next.
exit_accesses(task) ==
    current_task_accesses
    \o <<Hold(Inner(task)), Release(Inner(task))>>
    \o schedule_accesses

\* sys_fork: current_task(), fork() reading the parent, the child's trap
\* context, add_task.
sys_fork_accesses(queued, task, new_task) ==
    current_task_accesses
    \o <<Hold(Inner(task)), Release(Inner(task))>>
    \o <<Touch(Inner(new_task))>>
    \o add_task_accesses(queued, new_task)

\* sys_waitpid: the caller's inner cell is held while its children are read.
RECURSIVE children_accesses(_)
children_accesses(children) ==
    IF children = <<>> THEN <<>>
    ELSE <<Touch(Inner(Head(children)))>> \o children_accesses(Tail(children))

sys_waitpid_accesses(task, children) ==
    current_task_accesses
    \o <<Hold(Inner(task))>>
    \o children_accesses(children)
    \o <<Release(Inner(task))>>

(***************************************************************************)
(* easy-fs: the root directory Inode.  The directory is the sequence of    *)
(* its entries, an entry being a name and an inode number; a zeroed entry  *)
(* has the empty name and inode number 0.  Inode 0 is the root directory.  *)
(***************************************************************************)
Names == {"a", "b"}
RootInode == 0
InodeIds == 0..MaxInodes

DirEntry_empty == [name |-> "", inode_number |-> 0]
DirEntry_new(name, inode_id) == [name |-> name, inode_number |-> inode_id]

\* DiskInode::initialize.
DiskInode_initialize(type) == [allocated |-> TRUE, type |-> type, nlink |-> 1, size |-> 0]

\* An inode of the bitmap that was never allocated.
DiskInode_free == [allocated |-> FALSE, type |-> "File", nlink |-> 0, size |-> 0]

\* EasyFileSystem::create: a disk whose only inode is the root directory.
EasyFileSystem_create ==
    [id \in InodeIds |->
        IF id = RootInode THEN DiskInode_initialize("Directory") ELSE DiskInode_free]

NoFsCall == [op |-> "", name |-> "", new_name |-> "", ret |-> 0]

\* find_inode_id: the inode number of the first entry with the name.
find_inode_id(name, dir) ==
    LET hits == {i \in 1..Len(dir) : dir[i].name = name}
    IN  IF hits = {} THEN None
        ELSE dir[CHOOSE i \in hits : \A j \in hits : i <= j].inode_number

\* add_new_entry: the slot for a new entry, the first whose inode number is
\* 0, else one more at the end of the grown directory.
add_new_entry(dir) ==
    LET free == {i \in 1..Len(dir) : dir[i].inode_number = 0}
    IN  IF free # {}
        THEN [index |-> CHOOSE i \in free : \A j \in free : i <= j, dir |-> dir]
        ELSE [index |-> Len(dir) + 1, dir |-> Append(dir, DirEntry_empty)]

\* add_new_entry finds room within the entries that are followed.
HasRoom(dir) == Len(dir) < MaxEntries \/ \E i \in 1..Len(dir) : dir[i].inode_number = 0

\* EasyFileSystem::alloc_inode: the lowest inode of the bitmap not yet handed
\* out (no inode is ever given back: dealloc_inode is not called).
alloc_inode(inodes) ==
    CHOOSE id \in InodeIds : ~inodes[id].allocated
                              /\ \A j \in InodeIds : ~inodes[j].allocated => id <= j

\* Inode::link and Inode::unlink on a DiskInode.
link(disk_inode) == [disk_inode EXCEPT !.nlink = @ + 1]
unlink(disk_inode) == [disk_inode EXCEPT !.nlink = @ - 1]

\* clear_size with the data blocks given back to the file system.
clear_size(disk_inode) == [disk_inode EXCEPT !.size = 0]

\* Inode::create on the root directory.
Inode_create(name) ==
    /\ HasRoom(root_dir)
    /\ IF find_inode_id(name, root_dir) # None
       THEN /\ fs_call' = [op |-> "create", name |-> name, new_name |-> "", ret |-> -1]
            /\ UNCHANGED <<root_dir, disk_inodes>>
       ELSE /\ \E id \in InodeIds : ~disk_inodes[id].allocated
            /\ LET new_inode_id == alloc_inode(disk_inodes)
                   slot == add_new_entry(root_dir)
               IN  /\ disk_inodes' = [disk_inodes EXCEPT
                                         ![new_inode_id] = DiskInode_initialize("File")]
                   /\ root_dir' = [slot.dir EXCEPT
                                      ![slot.index] = DirEntry_new(name, new_inode_id)]
                   /\ fs_call' = [op |-> "create", name |-> name, new_name |-> "",
                                  ret |-> new_inode_id]
    /\ UNCHANGED kernel_vars

\* find(name) followed by write_at on the file found: the file gets data.
Inode_write_at(name) ==
    /\ LET id == find_inode_id(name, root_dir)
       IN  /\ id # None
           /\ disk_inodes[id].type = "File"
           /\ disk_inodes' = [disk_inodes EXCEPT ![id].size = 1]
           /\ fs_call' = [op |-> "write_at", name |-> name, new_name |-> "", ret |-> 1]
    /\ UNCHANGED root_dir
    /\ UNCHANGED kernel_vars

\* Inode::linkat on the root directory.
Inode_linkat(old_name, new_name) ==
    /\ HasRoom(root_dir)
    /\ \A id \in InodeIds : disk_inodes[id].nlink < MaxNlink
    /\ LET inode_id == find_inode_id(old_name, root_dir)
       IN  IF inode_id # None
           THEN LET slot == add_new_entry(root_dir)
                IN  /\ root_dir' = [slot.dir EXCEPT
                                       ![slot.index] = DirEntry_new(new_name, inode_id)]
                    /\ disk_inodes' = [disk_inodes EXCEPT ![inode_id] = link(@)]
                    /\ fs_call' = [op |-> "linkat", name |-> old_name,
                                   new_name |-> new_name, ret |-> 0]
           ELSE /\ fs_call' = [op |-> "linkat", name |-> old_name,
                               new_name |-> new_name, ret |-> -1]
                /\ UNCHANGED <<root_dir, disk_inodes>>
    /\ UNCHANGED kernel_vars

\* Inode::unlinkat on the root directory: every entry with the name is
\* zeroed, the inode found first is unlinked once.
Inode_unlinkat(name) ==
    /\ LET inode_id == find_inode_id(name, root_dir)
       IN  IF inode_id # None
           THEN LET unlinked == unlink(disk_inodes[inode_id])
                IN  /\ root_dir' = [i \in 1..Len(root_dir) |->
                                       IF root_dir[i].name = name THEN DirEntry_empty
                                       ELSE root_dir[i]]
                    /\ disk_inodes' = [disk_inodes EXCEPT
                                          ![inode_id] = IF unlinked.nlink = 0
                                                        THEN clear_size(unlinked)
                                                        ELSE unlinked]
                    /\ fs_call' = [op |-> "unlinkat", name |-> name, new_name |-> "",
                                   ret |-> 0]
           ELSE /\ fs_call' = [op |-> "unlinkat", name |-> name, new_name |-> "",
                               ret |-> -1]
                /\ UNCHANGED <<root_dir, disk_inodes>>
    /\ UNCHANGED kernel_vars

(***************************************************************************)
(* Initial state: INITPROC is built from its image and added to the ready  *)
(* queue; the processor is idle.                                           *)
(***************************************************************************)
Init ==
    /\ live = {InitPid}
    /\ tcb = [t \in Pids |-> NoTCB]
    /\ ready_queue = SetToBag({InitPid})
    /\ current = None
    /\ panicked = FALSE
    /\ last = NoCall
    /\ syscall_times = [t \in Pids |-> ZeroTimes]
    /\ invoked = [t \in Pids |-> [s \in SyscallIds |-> 0]]
    /\ clock = 0
    /\ borrowed = NoBorrows
    /\ root_dir = <<>>
    /\ disk_inodes = EasyFileSystem_create
    /\ fs_call = NoFsCall

(***************************************************************************)
(* run_tasks: one iteration of the dispatch loop that finds a task.        *)
(***************************************************************************)
\* History: the dispatches of a task are counted up to StrideN.
CountDispatch(d) == IF d < StrideN THEN d + 1 ELSE d

\* run_tasks_tcb with the stride of line 68 left out.
run_tasks_tcb_nostride(rec, now) ==
    [rec EXCEPT !.task_status = "Running",
                !.started = TRUE,
                !.start_time = IF rec.started THEN rec.start_time ELSE now,
                !.resume = "trap_return",
                !.dispatches = CountDispatch(rec.dispatches)]

\* run_tasks_tcb with the test of line 63 left out: every dispatch stamps.
run_tasks_tcb_restamp(rec, now) ==
    [rec EXCEPT !.task_status = "Running",
                !.started = TRUE,
                !.start_time = now,
                !.pass = Pass_stride(rec.pass, rec.prio),
                !.resume = "trap_return",
                !.dispatches = CountDispatch(rec.dispatches)]

\* The fields of the fetched task as run_tasks leaves them; now is the
\* reading of the timer at line 64.
run_tasks_tcb(rec, now) ==
    [rec EXCEPT !.task_status = "Running",
                !.started = TRUE,
                !.start_time = IF rec.started THEN rec.start_time ELSE now,
                !.pass = Pass_stride(rec.pass, rec.prio),
                !.resume = "trap_return",
                !.dispatches = CountDispatch(rec.dispatches)]

\* sys_yield: the value returned once the task is dispatched again.
sys_yield_ret == 0

\* resume_ret with sys_yield ending in -1.
resume_ret_err(rec) == IF rec.resume = "sys_yield" THEN -1 ELSE rec.x10

\* The value in a0 when the dispatched task is back in user mode: the result
\* of the sys_yield it was suspended in, or the a0 of its trap context.
resume_ret(rec) == IF rec.resume = "sys_yield" THEN sys_yield_ret ELSE rec.x10

Dispatch(task) ==
    /\ ~panicked
    /\ current = None
    /\ task \in BinaryHeap_pop(ready_queue)
    /\ ready_queue' = TaskManager_fetch(ready_queue, task)
    /\ tcb' = [tcb EXCEPT ![task] = run_tasks_tcb(tcb[task], clock)]
    /\ current' = task
    /\ last' = [Call("run_tasks", task, 0, resume_ret(tcb[task]))
                   EXCEPT !.out = IF tcb[task].resume = "sys_yield" THEN 1 ELSE 0]
    /\ UNCHANGED <<live, panicked>>
    /\ UNCHANGED <<clock, root_dir, disk_inodes, fs_call>>

\* The dispatch loop, followed for MaxDispatch dispatches of each task.
RunTasks == \E task \in Pids : tcb[task].dispatches < MaxDispatch /\ Dispatch(task)

(***************************************************************************)
(* sys_yield: suspend_current_and_run_next, then 0 once dispatched again.  *)
(***************************************************************************)
\* suspend_current_and_run_next: the fields of the task that gives up the CPU.
suspend_tcb(rec) == [rec EXCEPT !.task_status = "Ready", !.resume = "sys_yield"]

SysYield ==
    /\ ~panicked
    /\ current # None
    /\ tcb' = [tcb EXCEPT ![current] = suspend_tcb(tcb[current])]
    /\ ready_queue' = TaskManager_add(ready_queue, current)
    /\ current' = None
    /\ last' = Call("yield", current, 0, 0)
    /\ UNCHANGED <<live, panicked>>
    /\ UNCHANGED <<clock, root_dir, disk_inodes, fs_call>>

(***************************************************************************)
(* sys_exit: exit_current_and_run_next(exit_code); never returns.          *)
(***************************************************************************)
\* exit_tcb with the exit code not stored.
exit_tcb_nocode(rec, exit_code) == [rec EXCEPT !.task_status = "Zombie"]

\* exit_current_and_run_next: the fields of the task that exits.
exit_tcb(rec, exit_code) == [rec EXCEPT !.task_status = "Zombie", !.exit_code = exit_code]

\* exit_current_and_run_next: the ready queue afterwards; the task taken
\* from the processor is dropped, not queued.
exit_queue(rq, task) == rq

SysExit(exit_code) ==
    /\ ~panicked
    /\ current # None
    /\ LET tb == [tcb EXCEPT ![current] = exit_tcb(tcb[current], exit_code)]
           rq == exit_queue(ready_queue, current)
           lv == Sweep(live, tb, rq, None)
       IN  /\ live' = lv
           /\ tcb' = Cleared(lv, tb)
           /\ ready_queue' = rq
    /\ current' = None
    /\ last' = Call("exit", current, exit_code, 0)
    /\ UNCHANGED panicked
    /\ UNCHANGED <<clock, root_dir, disk_inodes, fs_call>>

(***************************************************************************)
(* sys_fork.                                                               *)
(***************************************************************************)
\* TaskControlBlock::fork: the child's fields.  The address space and the
\* trap context are copies of the parent's; priority and pass are either the
\* parent's or those of a new task.
\* TCB_fork with the address space built anew from the program image
\* instead of copied.
TCB_fork_fresh(rec, par, inherit) ==
    [TCB_new(par, rec.image) EXCEPT
        !.prio = IF inherit THEN rec.prio ELSE DefaultPrio,
        !.pass = IF inherit THEN rec.pass ELSE 0,
        !.x10  = rec.x10]

\* TCB_fork with the status copied from the parent like the other fields.
TCB_fork_status(rec, par, inherit) ==
    [rec EXCEPT !.parent = par,
                !.children = <<>>,
                !.prio = IF inherit THEN rec.prio ELSE DefaultPrio,
                !.pass = IF inherit THEN rec.pass ELSE 0,
                !.resume = "trap_return",
                !.exit_code = 0,
                !.started = FALSE,
                !.start_time = 0,
                !.dispatches = 0]

TCB_fork(rec, par, inherit) ==
    [task_status |-> "Ready",
     parent      |-> par,
     children    |-> <<>>,
     prio        |-> IF inherit THEN rec.prio ELSE DefaultPrio,
     pass        |-> IF inherit THEN rec.pass ELSE 0,
     x10         |-> rec.x10,
     resume      |-> "trap_return",
     exit_code   |-> 0,
     memory_set  |-> rec.memory_set,
     image       |-> rec.image,
     started     |-> FALSE,
     start_time  |-> 0,
     dispatches  |-> 0]

\* fork_child_x10 with the assignment of line 45 left out.
fork_child_x10_kept(copied) == copied

\* sys_fork: the child's a0 (trap_cx.x[10]) given the value it was copied with.
fork_child_x10(copied) == 0

\* sys_fork: the value returned to the parent.
fork_ret(new_pid) == new_pid

\* fork_queue with add_task called twice on the child.
fork_queue_twice(rq, new_task) == TaskManager_add(TaskManager_add(rq, new_task), new_task)

\* sys_fork: the ready queue once the handler returns.
fork_queue(rq, new_task) == TaskManager_add(rq, new_task)

SysFork(new_pid, inherit, a0) ==
    /\ ~panicked
    /\ current # None
    /\ new_pid \in Pids \ live
    /\ LET \* the trap saved the caller's registers, a0 among them
           caller == [tcb[current] EXCEPT !.x10 = a0]
           child  == TCB_fork(caller, current, inherit)
       IN  tcb' = [tcb EXCEPT ![new_pid] = [child EXCEPT !.x10 = fork_child_x10(child.x10)],
                              ![current].children = Append(@, new_pid)]
    /\ live' = live \cup {new_pid}
    /\ ready_queue' = fork_queue(ready_queue, new_pid)
    /\ last' = Call("fork", current, a0, fork_ret(new_pid))
    /\ UNCHANGED <<current, panicked>>
    /\ UNCHANGED <<clock, root_dir, disk_inodes, fs_call>>

(***************************************************************************)
(* sys_exec.                                                               *)
(***************************************************************************)
\* loader::get_app_data_by_name: whether the loader finds the program.
get_app_data_by_name(path) == path \in Apps

\* TaskControlBlock::exec: a new address space and a new trap context; the
\* pid, the parent link, the children and the scheduling fields stay.
\* TCB_exec with the status reset as in a newly built task.
TCB_exec_ready(rec, img) ==
    [rec EXCEPT !.memory_set = FromElf(img), !.image = img, !.x10 = 0,
                !.task_status = "Ready"]

TCB_exec(rec, img) == [rec EXCEPT !.memory_set = FromElf(img), !.image = img, !.x10 = 0]

\* sys_exec with 0 returned on both branches.
sys_exec_ret0(rec, path) ==
    IF get_app_data_by_name(path)
    THEN [ret |-> 0, rec |-> TCB_exec(rec, path)]
    ELSE [ret |-> 0, rec |-> rec]

\* sys_exec: the result and the caller's fields afterwards.
sys_exec(rec, path) ==
    IF get_app_data_by_name(path)
    THEN [ret |-> 0, rec |-> TCB_exec(rec, path)]
    ELSE [ret |-> -1, rec |-> rec]

SysExec(path) ==
    /\ ~panicked
    /\ current # None
    /\ LET r == sys_exec(tcb[current], path)
       IN  /\ tcb' = [tcb EXCEPT ![current] = r.rec]
           /\ last' = [Call("exec", current, 0, r.ret) EXCEPT !.path = path]
    /\ UNCHANGED <<live, ready_queue, current, panicked>>
    /\ UNCHANGED <<clock, root_dir, disk_inodes, fs_call>>

(***************************************************************************)
(* sys_waitpid.                                                            *)
(***************************************************************************)
\* The closure of lines 75 and 82: pid == -1 || pid as usize == p.getpid().
\* A negative pid other than -1 is a huge usize and equals no pid.
waitpid_matches(pid, p) == pid = -1 \/ pid = p

\* waitpid_find with the pid test left out of the closure: any Zombie child.
waitpid_find_any(pid, kids, tb) ==
    LET zs == {i \in 1 .. Len(kids) : tb[kids[i]].task_status = "Zombie"}
    IN  IF zs = {} THEN 0 ELSE CHOOSE i \in zs : \A j \in zs : i <= j

\* waitpid_find with is_zombie() left out of the closure: the first matching
\* child, whatever its status.
waitpid_find_nozombie(pid, kids, tb) ==
    LET ms == {i \in 1 .. Len(kids) : waitpid_matches(pid, kids[i])}
    IN  IF ms = {} THEN 0 ELSE CHOOSE i \in ms : \A j \in ms : i <= j

\* The index find() returns at line 80: the first matching Zombie child, or 0.
waitpid_find(pid, kids, tb) ==
    LET zs == {i \in 1 .. Len(kids) :
                  tb[kids[i]].task_status = "Zombie" /\ waitpid_matches(pid, kids[i])}
    IN  IF zs = {} THEN 0 ELSE CHOOSE i \in zs : \A j \in zs : i <= j

\* sys_waitpid: the result, and the index of the child it removes (0: none).
sys_waitpid(pid, kids, tb) ==
    IF ~ \E i \in 1 .. Len(kids) : waitpid_matches(pid, kids[i])
    THEN [ret |-> -1, idx |-> 0]
    ELSE LET idx == waitpid_find(pid, kids, tb)
         IN  IF idx # 0 THEN [ret |-> kids[idx], idx |-> idx]
                        ELSE [ret |-> -2, idx |-> 0]

SysWaitpid(pid) ==
    /\ ~panicked
    /\ current # None
    /\ LET kids  == tcb[current].children
           r     == sys_waitpid(pid, kids, tcb)
           child == kids[r.idx]
           tb    == [tcb EXCEPT ![current].children = RemoveAt(kids, r.idx)]
           \* strong_count(&child) with the local handle `child` counted
           count == strong_count(child, live, tb, ready_queue, current) + 1
           lv    == Sweep(live, tb, ready_queue, current)
       IN  IF r.idx = 0
           THEN /\ last' = Call("waitpid", current, pid, r.ret)
                /\ UNCHANGED <<live, tcb, panicked>>
           ELSE IF count # 1
           THEN /\ panicked' = TRUE
                /\ last' = Call("waitpid", current, pid, 0)
                /\ UNCHANGED <<live, tcb>>
           ELSE /\ live' = lv
                /\ tcb' = Cleared(lv, tb)
                /\ last' = [Call("waitpid", current, pid, r.ret)
                               EXCEPT !.out = tcb[child].exit_code]
                /\ UNCHANGED panicked
    /\ UNCHANGED <<ready_queue, current>>
    /\ UNCHANGED <<clock, root_dir, disk_inodes, fs_call>>

(***************************************************************************)
(* sys_set_priority.                                                       *)
(***************************************************************************)
\* sys_set_priority with the test of line 127 written _prio < 1.
sys_set_priority_lt1(old, _prio) ==
    IF _prio < 1
    THEN [ret |-> -1, prio |-> old]
    ELSE [ret |-> _prio, prio |-> _prio]

\* sys_set_priority: the result and the caller's priority afterwards.
sys_set_priority(old, _prio) ==
    IF _prio <= 1
    THEN [ret |-> -1, prio |-> old]
    ELSE [ret |-> _prio, prio |-> _prio]

SysSetPriority(_prio) ==
    /\ ~panicked
    /\ current # None
    /\ LET r == sys_set_priority(tcb[current].prio, _prio)
       IN  /\ tcb' = [tcb EXCEPT ![current].prio = r.prio]
           /\ last' = Call("set_priority", current, _prio, r.ret)
    /\ UNCHANGED <<live, ready_queue, current, panicked>>
    /\ UNCHANGED <<clock, root_dir, disk_inodes, fs_call>>

(***************************************************************************)
(* sys_mmap and sys_munmap.                                                *)
(***************************************************************************)
\* _port & 7, for a port that is not negative (usize).
port_bits(_port) == _port % (PortMask + 1)

\* sys_mmap with the test of line 141 reduced to port == 0: bits outside the
\* low three are dropped instead of refused.
sys_mmap_lowbits(ms, _start, _len, _port) ==
    IF page_offset(_start) # 0
    THEN [ret |-> -1, ms |-> ms, called |-> FALSE]
    ELSE IF port_bits(_port) = 0
    THEN [ret |-> -1, ms |-> ms, called |-> FALSE]
    ELSE LET r == MemorySet_map(ms, _start, _start + _len, port_bits(_port))
         IN  [ret |-> r.ret, ms |-> r.ms, called |-> TRUE]

\* sys_mmap with the result of mmap() dropped: 0 whenever mmap() was called.
sys_mmap_ret0(ms, _start, _len, _port) ==
    IF page_offset(_start) # 0
    THEN [ret |-> -1, ms |-> ms, called |-> FALSE]
    ELSE IF port_bits(_port) = 0 \/ port_bits(_port) # _port
    THEN [ret |-> -1, ms |-> ms, called |-> FALSE]
    ELSE LET r == MemorySet_map(ms, _start, _start + _len, port_bits(_port))
         IN  [ret |-> 0, ms |-> r.ms, called |-> TRUE]

\* sys_mmap: the result and the caller's address space afterwards; `called`
\* tells whether mmap() (MemorySet::map) was invoked.
sys_mmap(ms, _start, _len, _port) ==
    IF page_offset(_start) # 0
    THEN [ret |-> -1, ms |-> ms, called |-> FALSE]
    ELSE IF port_bits(_port) = 0 \/ port_bits(_port) # _port
    THEN [ret |-> -1, ms |-> ms, called |-> FALSE]
    ELSE LET r == MemorySet_map(ms, _start, _start + _len, port_bits(_port))
         IN  [ret |-> r.ret, ms |-> r.ms, called |-> TRUE]

SysMmap(_start, _len, _port) ==
    /\ ~panicked
    /\ current # None
    /\ InWindow(_start, _start + _len)
    /\ LET r == sys_mmap(tcb[current].memory_set, _start, _len, _port)
       IN  /\ tcb' = [tcb EXCEPT ![current].memory_set = r.ms]
           /\ last' = [Call("mmap", current, _start, r.ret)
                          EXCEPT !.arg2 = _len, !.arg3 = _port,
                                 !.out = IF r.called THEN 1 ELSE 0]
    /\ UNCHANGED <<live, ready_queue, current, panicked>>
    /\ UNCHANGED <<clock, root_dir, disk_inodes, fs_call>>

\* sys_munmap with the result of munmap() dropped: 0 whenever it was called.
sys_munmap_ret0(ms, _start, _len) ==
    IF page_offset(_start) # 0
    THEN [ret |-> -1, ms |-> ms]
    ELSE [ret |-> 0, ms |-> MemorySet_unmap(ms, _start, _start + _len).ms]

\* sys_munmap: the result and the caller's address space afterwards.
sys_munmap(ms, _start, _len) ==
    IF page_offset(_start) # 0
    THEN [ret |-> -1, ms |-> ms]
    ELSE MemorySet_unmap(ms, _start, _start + _len)

SysMunmap(_start, _len) ==
    /\ ~panicked
    /\ current # None
    /\ InWindow(_start, _start + _len)
    /\ LET r == sys_munmap(tcb[current].memory_set, _start, _len)
       IN  /\ tcb' = [tcb EXCEPT ![current].memory_set = r.ms]
           /\ last' = [Call("munmap", current, _start, r.ret) EXCEPT !.arg2 = _len]
    /\ UNCHANGED <<live, ready_queue, current, panicked>>
    /\ UNCHANGED <<clock, root_dir, disk_inodes, fs_call>>

(***************************************************************************)
(* sys_spawn.                                                              *)
(***************************************************************************)
\* TaskControlBlock::spawn: the new task's fields, built from the image.
TCB_spawn(par, img) == TCB_new(par, img)

\* sys_spawn: the value returned when the program is found.
spawn_ret(new_pid) == new_pid

\* spawn_queue with the add_task of line 168 left out.
spawn_queue_noadd(rq, new_task) == rq

\* sys_spawn: the ready queue once the handler returns.
spawn_queue(rq, new_task) == TaskManager_add(rq, new_task)

SysSpawn(path) ==
    /\ ~panicked
    /\ current # None
    /\ IF get_app_data_by_name(path)
       THEN \E new_pid \in Pids \ live :
            /\ tcb' = [tcb EXCEPT ![new_pid] = TCB_spawn(current, path),
                                  ![current].children = Append(@, new_pid)]
            /\ live' = live \cup {new_pid}
            /\ ready_queue' = spawn_queue(ready_queue, new_pid)
            /\ last' = [Call("spawn", current, 0, spawn_ret(new_pid)) EXCEPT !.path = path]
       ELSE /\ last' = [Call("spawn", current, 0, -1) EXCEPT !.path = path]
            /\ UNCHANGED <<live, tcb, ready_queue>>
    /\ UNCHANGED <<current, panicked>>
    /\ UNCHANGED <<clock, root_dir, disk_inodes, fs_call>>

(***************************************************************************)
(* sys_task_info and the counting of syscalls.                             *)
(***************************************************************************)
\* sys_task_info: writes get_current_task_info() to the caller and returns 0.
SysTaskInfo ==
    /\ ~panicked
    /\ current # None
    /\ last' = Call("task_info", current, 0, 0)
    /\ UNCHANGED <<live, tcb, ready_queue, current, panicked>>
    /\ UNCHANGED <<clock, root_dir, disk_inodes, fs_call>>

\* The table sys_task_info wrote in the last kernel entry.
TaskInfo_syscall_times == get_current_task_info(syscall_times[last.task])

\* The calls the current task has made so far, over all syscalls.
CallsOfCurrent ==
    LET Sum[ids \in SUBSET SyscallIds] ==
            IF ids = {} THEN 0
            ELSE LET s == CHOOSE x \in ids : TRUE
                 IN  syscall_times[current][s] + Sum[ids \ {s}]
    IN  Sum[SyscallIds]

\* The counters are followed for MaxCalls syscalls of each task.
CanCount == current # None /\ CallsOfCurrent < MaxCalls

\* The syscall entry: inc_task_syscall_times(syscall_id) on the current task
\* before the handler runs.  A task created by the handler gets the table
\* fork gives it; the slot of a task that is dropped is cleared.
CountCall(syscall_id) ==
    LET counted == inc_task_syscall_times(syscall_times[current], syscall_id)
    IN  /\ syscall_times' =
              [t \in Pids |->
                  IF t \notin live' THEN ZeroTimes
                  ELSE IF t \notin live THEN fork_syscall_times(counted)
                  ELSE IF t = current THEN counted
                  ELSE syscall_times[t]]
        /\ invoked' =
              [t \in Pids |-> [s \in SyscallIds |->
                  IF t \notin live' \/ t \notin live THEN 0
                  ELSE IF t = current /\ s = syscall_id THEN invoked[t][s] + 1
                  ELSE invoked[t][s]]]

\* A kernel entry whose counting is not followed.
NoCount == UNCHANGED <<syscall_times, invoked>>

\* A kernel entry that makes the given accesses, unless an earlier one panicked.
Access(accesses) ==
    /\ ~borrowed.failed
    /\ borrowed' = Perform(accesses, [borrowed EXCEPT !.at_switch = {}, !.compared = {}])

\* A kernel entry whose accesses are not followed.
NoAccess == UNCHANGED borrowed

(***************************************************************************)
(* The kernel: process lifecycle, scheduling and priorities.               *)
(***************************************************************************)
Next ==
    \/ RunTasks /\ NoCount /\ NoAccess
    \/ SysYield /\ NoCount /\ NoAccess
    \/ (\E c \in ExitCodes : SysExit(c)) /\ NoCount /\ NoAccess
    \/ (\E n \in Pids, inherit \in BOOLEAN, a0 \in UserA0 : SysFork(n, inherit, a0)) /\ NoCount /\ NoAccess
    \/ (\E path \in PathArgs : SysExec(path)) /\ NoCount /\ NoAccess
    \/ (\E pid \in WaitpidArgs : SysWaitpid(pid)) /\ NoCount /\ NoAccess
    \/ (\E path \in PathArgs : SysSpawn(path)) /\ NoCount /\ NoAccess

Spec == Init /\ [][Next]_vars

(***************************************************************************)
(* The kernel with the priority syscall: scheduling under priorities.      *)
(***************************************************************************)
NextPrio ==
    \/ RunTasks /\ NoCount /\ NoAccess
    \/ SysYield /\ NoCount /\ NoAccess
    \/ (\E n \in Pids, inherit \in BOOLEAN, a0 \in UserA0 : SysFork(n, inherit, a0)) /\ NoCount /\ NoAccess
    \/ (\E path \in PathArgs : SysSpawn(path)) /\ NoCount /\ NoAccess
    \/ (\E p \in PrioArgs : SysSetPriority(p)) /\ NoCount /\ NoAccess

SpecPrio == Init /\ [][NextPrio]_vars

(***************************************************************************)
(* The kernel with the address-space syscalls.                             *)
(***************************************************************************)
NextMem ==
    \/ RunTasks /\ NoCount /\ NoAccess
    \/ SysYield /\ NoCount /\ NoAccess
    \/ (\E n \in Pids, inherit \in BOOLEAN, a0 \in UserA0 :
          Cardinality(live) < MemTasks /\ SysFork(n, inherit, a0)) /\ NoCount /\ NoAccess
    \/ (\E s \in StartArgs, l \in LenArgs, p \in PortArgs : SysMmap(s, l, p)) /\ NoCount /\ NoAccess
    \/ (\E s \in StartArgs, l \in LenArgs : SysMunmap(s, l)) /\ NoCount /\ NoAccess

SpecMem == Init /\ [][NextMem]_vars

(***************************************************************************)
(* The kernel with the syscall counters followed.                          *)
(***************************************************************************)
NextInfo ==
    \/ RunTasks /\ NoCount /\ NoAccess
    \/ CanCount /\ SysYield /\ CountCall("yield") /\ NoAccess
    \/ CanCount /\ (\E n \in Pids : SysFork(n, TRUE, 0)) /\ CountCall("fork") /\ NoAccess
    \/ CanCount /\ (\E c \in ExitCodes : SysExit(c)) /\ CountCall("exit") /\ NoAccess
    \/ CanCount /\ (\E pid \in WaitpidArgs : SysWaitpid(pid)) /\ CountCall("waitpid") /\ NoAccess
    \/ CanCount /\ SysTaskInfo /\ CountCall("task_info") /\ NoAccess

SpecInfo == Init /\ [][NextInfo]_vars

(***************************************************************************)
(* The kernel with the timer followed: the microsecond timer advances      *)
(* between kernel entries, up to MaxTime.                                  *)
(***************************************************************************)
Tick ==
    /\ clock < MaxTime
    /\ clock' = clock + 1
    /\ UNCHANGED <<live, tcb, ready_queue, current, panicked, last>>
    /\ UNCHANGED <<root_dir, disk_inodes, fs_call>>

NextTime ==
    \/ RunTasks /\ NoCount /\ NoAccess
    \/ SysYield /\ NoCount /\ NoAccess
    \/ (\E n \in Pids, a0 \in UserA0 : SysFork(n, TRUE, a0)) /\ NoCount /\ NoAccess
    \/ (\E path \in PathArgs : SysExec(path)) /\ NoCount /\ NoAccess
    \/ Tick /\ NoCount /\ NoAccess

SpecTime == Init /\ [][NextTime]_vars

(***************************************************************************)
(* The kernel with the accesses to the exclusive-access cells followed.    *)
(***************************************************************************)
Queue == BagToSet(ready_queue)

NextBorrow ==
    \/ RunTasks /\ NoCount /\ Access(run_tasks_accesses(Queue, current'))
    \/ SysYield /\ NoCount /\ Access(suspend_accesses(Queue, current))
    \/ (\E c \in ExitCodes : SysExit(c)) /\ NoCount /\ Access(exit_accesses(current))
    \/ \E n \in Pids : SysFork(n, TRUE, 0) /\ NoCount
                          /\ Access(sys_fork_accesses(Queue, current, n))
    \/ (\E pid \in WaitpidArgs : SysWaitpid(pid)) /\ NoCount
           /\ Access(sys_waitpid_accesses(current, tcb[current].children))

SpecBorrow == Init /\ [][NextBorrow]_vars

(***************************************************************************)
(* easy-fs: create, write, linkat and unlinkat on the root directory.      *)
(***************************************************************************)
NextFs ==
    \/ \E name \in Names : Inode_create(name)
    \/ \E name \in Names : Inode_write_at(name)
    \/ \E old_name \in Names, new_name \in Names : Inode_linkat(old_name, new_name)
    \/ \E name \in Names : Inode_unlinkat(name)

SpecFs == Init /\ [][NextFs]_vars

(***************************************************************************)
(* The stride experiment: two tasks of priorities 2 and 4, both Ready with *)
(* pass 0, each yielding after every dispatch.                             *)
(***************************************************************************)
StrideTCB(p, par, kids) == [TCB_new(par, "app") EXCEPT !.prio = p, !.children = kids]

InitStride ==
    /\ live = {0, 1}
    /\ \E p \in {2, 4} :
          tcb = [t \in Pids |->
                    IF t = 0 THEN StrideTCB(p, None, <<1>>)
                    ELSE IF t = 1 THEN StrideTCB(6 - p, 0, <<>>)
                    ELSE NoTCB]
    /\ ready_queue = SetToBag({0, 1})
    /\ current = None
    /\ panicked = FALSE
    /\ last = NoCall
    /\ syscall_times = [t \in Pids |-> ZeroTimes]
    /\ invoked = [t \in Pids |-> [s \in SyscallIds |-> 0]]
    /\ clock = 0
    /\ borrowed = NoBorrows
    /\ root_dir = <<>>
    /\ disk_inodes = EasyFileSystem_create
    /\ fs_call = NoFsCall

\* Dispatches so far, over both tasks.
TotalDispatches == tcb[0].dispatches + tcb[1].dispatches

\* The dispatch loop, followed for StrideN dispatches in all.
RunTasksStride == \E task \in Pids : TotalDispatches < StrideN /\ Dispatch(task)

NextStride ==
    \/ RunTasksStride /\ NoCount /\ NoAccess
    \/ SysYield /\ NoCount /\ NoAccess

SpecStride == InitStride /\ [][NextStride]_vars

(***************************************************************************)
(* The stride experiment without an end: the dispatch loop never stops     *)
(* looking for a task, and a dispatched task eventually yields.            *)
(***************************************************************************)
RunTasksLoop == \E task \in Pids : Dispatch(task)

NextFair ==
    \/ RunTasksLoop /\ NoCount /\ NoAccess
    \/ SysYield /\ NoCount /\ NoAccess

SpecFair ==
    /\ InitStride
    /\ [][NextFair]_vars
    /\ WF_vars(RunTasksLoop /\ NoCount /\ NoAccess)
    /\ WF_vars(SysYield /\ NoCount /\ NoAccess)

(***************************************************************************)
(* Properties.                                                             *)
(***************************************************************************)
\* The pages that the byte range [start, start + len) touches.
PagesTouched(start, len) ==
    {p \in Pages : p * PAGE_SIZE < start + len /\ start < (p + 1) * PAGE_SIZE}

\* The mapped pages of an address space.
Mapped(ms) == {p \in Pages : ms[p] # 0}

\* C1: sys_waitpid(pid, ptr) returns -1 if no child of the caller matches pid
\* (-1 matches any child), -2 if a child matches but no matching child is a
\* Zombie, and otherwise the pid of a matching Zombie child; the result is
\* never a pid that was not in the caller's children list at call time.
C1_WaitpidResult ==
    [][LET pid == last'.arg IN
          (last'.op = "waitpid" /\ SysWaitpid(pid) /\ ~panicked') =>
             LET kids     == Range(tcb[current].children)
                 matching == {k \in kids : pid = -1 \/ k = pid}
                 zombies  == {k \in matching : tcb[k].task_status = "Zombie"}
             IN  /\ matching = {} => last'.ret = -1
                 /\ (matching # {} /\ zombies = {}) => last'.ret = -2
                 /\ zombies # {} => last'.ret \in zombies
                 /\ last'.ret >= 0 => last'.ret \in kids]_vars

\* A waitpid for one given pid reaped that child while the caller keeps
\* another child.
C1_Witness ==
    /\ last.op = "waitpid"
    /\ last.arg > 0
    /\ last.ret = last.arg
    /\ tcb[last.task].children # <<>>

\* C2: after sys_fork by task T the call returns the new child's pid, the
\* child's saved a0 (x[10]) is 0, and the child is in the ready queue.
C2_Fork ==
    last.op = "fork" =>
        /\ last.ret \in live
        /\ last.ret # last.task
        /\ last.ret \in Range(tcb[last.task].children)
        /\ tcb[last.ret].parent = last.task
        /\ tcb[last.ret].dispatches = 0
        /\ tcb[last.ret].x10 = 0
        /\ CopiesIn(last.ret, ready_queue) = 1

\* A fork whose caller had a non-zero a0 at the ecall.
C2_Witness ==
    /\ last.op = "fork"
    /\ last.arg # 0
    /\ last.ret \in live

StrideTask(p) == CHOOSE t \in {0, 1} : tcb[t].prio = p
D2 == tcb[StrideTask(2)].dispatches
D4 == tcb[StrideTask(4)].dispatches

\* No pass has wrapped around yet: the sum of a task's strides fits a pass.
NoWrapYet ==
    \A t \in {0, 1} : tcb[t].dispatches * (BIG_STRIDE \div tcb[t].prio) < PassModulus

C5_SetPriority ==
    [][LET p == last'.arg IN
          (last'.op = "set_priority" /\ SysSetPriority(p)) =>
             /\ p <= 1 => (last'.ret = -1 /\ tcb'[current].prio = tcb[current].prio)
             /\ p >= 2 => (last'.ret = p /\ tcb'[current].prio = p)
             /\ \A t \in Pids \ {current} : tcb'[t] = tcb[t]]_vars

\* A rejected set_priority(1) by a task whose priority had been set to 4.
C5_Witness ==
    /\ last.op = "set_priority"
    /\ last.arg = 1
    /\ last.ret = -1
    /\ tcb[last.task].prio = 4

\* C6: sys_mmap(start, len, port) returns -1 without invoking the map
\* operation and without changing any address space when start is not
\* page-aligned, port is 0, or port has a bit outside the low three.
C6_MmapRejects ==
    [][LET s == last'.arg
           l == last'.arg2
           p == last'.arg3
       IN (/\ last'.op = "mmap"
           /\ SysMmap(s, l, p)
           /\ (s % PAGE_SIZE # 0 \/ p = 0 \/ p >= 8)) =>
             /\ last'.ret = -1
             /\ last'.out = 0
             /\ tcb' = tcb]_vars

\* A rejected request with a page-aligned start and the bits R, W and one
\* outside the low three, by a task that has a mapping.
C6_Witness ==
    /\ last.op = "mmap"
    /\ last.arg = 0
    /\ last.arg3 = 11
    /\ last.ret = -1
    /\ Mapped(tcb[last.task].memory_set) # {}

\* C7: a sys_mmap with valid permission bits over a page-aligned range that
\* overlaps no existing mapping returns 0 and maps the range; a sys_mmap whose
\* range overlaps an existing mapping returns -1 and leaves the mapped regions
\* as they were.
C7_MmapOverlap ==
    [][LET s == last'.arg
           l == last'.arg2
           p == last'.arg3
       IN (last'.op = "mmap" /\ SysMmap(s, l, p)) =>
             LET ms == tcb[current].memory_set
                 aligned == s % PAGE_SIZE = 0 /\ (s + l) % PAGE_SIZE = 0
                 valid == p \in 1 .. 7
             IN  /\ (aligned /\ valid /\ PagesTouched(s, l) \cap Mapped(ms) = {}) =>
                       /\ last'.ret = 0
                       /\ Mapped(tcb'[current].memory_set) = Mapped(ms) \cup PagesTouched(s, l)
                       /\ \A q \in Mapped(ms) : tcb'[current].memory_set[q] = ms[q]
                 /\ PagesTouched(s, l) \cap Mapped(ms) # {} =>
                       /\ last'.ret = -1
                       /\ tcb' = tcb]_vars

\* Two requests mapped the two pages one by one (their permission bits
\* differ), and a third, valid request over both pages was then refused,
\* leaving both mappings.
C7_Witness ==
    /\ last.op = "mmap"
    /\ last.arg = 0
    /\ last.arg2 = 2 * PAGE_SIZE
    /\ last.arg3 = 3
    /\ last.ret = -1
    /\ last.out = 1
    /\ Mapped(tcb[last.task].memory_set) = {0, 1}
    /\ tcb[last.task].memory_set[0] # tcb[last.task].memory_set[1]

\* C8: sys_munmap(start, len) returns -1 and changes no mapping when a page
\* of the range is not mapped in the caller's address space, and when start
\* is not page-aligned.
C8_MunmapAllOrNothing ==
    [][LET s == last'.arg
           l == last'.arg2
       IN (/\ last'.op = "munmap"
           /\ SysMunmap(s, l)
           /\ (s % PAGE_SIZE # 0 \/ PagesTouched(s, l) \ Mapped(tcb[current].memory_set) # {})) =>
             /\ last'.ret = -1
             /\ tcb' = tcb]_vars

\* A page-aligned munmap over both pages was refused while exactly one of
\* them was mapped, and that page is still mapped.
C8_Witness ==
    /\ last.op = "munmap"
    /\ last.arg = 0
    /\ last.arg2 = 2 * PAGE_SIZE
    /\ last.ret = -1
    /\ Cardinality(Mapped(tcb[last.task].memory_set)) = 1

\* C9: sys_exec(path) returns -1 and changes nothing of the caller when the
\* program is not found; when it is found it returns 0 and the caller's pid,
\* parent link and children list are as before.
C9_Exec ==
    [][LET path == last'.path IN
          (last'.op = "exec" /\ SysExec(path)) =>
             /\ current' = current
             /\ live' = live
             /\ path \notin Apps => (last'.ret = -1 /\ tcb' = tcb /\ ~panicked')
             /\ path \in Apps =>
                   /\ last'.ret = 0
                   /\ tcb'[current].parent = tcb[current].parent
                   /\ tcb'[current].children = tcb[current].children
                   /\ tcb'[current].image = path]_vars

\* An exec that replaced the image of a task that has a parent and a child.
C9_Witness ==
    /\ last.op = "exec"
    /\ last.ret = 0
    /\ tcb[last.task].image = "app"
    /\ tcb[last.task].parent # None
    /\ tcb[last.task].children # <<>>

\* C10: sys_spawn(path) returns -1 and creates no task when the program is
\* not found; when it is found it returns the new task's pid, the new task is
\* a child of the caller and is in the ready queue, and the caller's address
\* space is unchanged.
C10_Spawn ==
    [][LET path == last'.path IN
          (last'.op = "spawn" /\ SysSpawn(path)) =>
             /\ path \notin Apps =>
                   (last'.ret = -1 /\ tcb' = tcb /\ live' = live /\ ready_queue' = ready_queue)
             /\ path \in Apps =>
                   LET new == last'.ret
                   IN  /\ new \in live' \ live
                       /\ live' = live \cup {new}
                       /\ tcb'[new].parent = current
                       /\ tcb'[current].children = Append(tcb[current].children, new)
                       /\ ready_queue' = ready_queue (+) SetToBag({new})
                       /\ tcb'[current].memory_set = tcb[current].memory_set
                       /\ tcb'[current].image = tcb[current].image]_vars

\* A spawn by a task that already had a child: the new task is its second
\* child and waits in the ready queue.
C10_Witness ==
    /\ last.op = "spawn"
    /\ last.ret > 0
    /\ Len(tcb[last.task].children) = 2
    /\ BagIn(last.ret, ready_queue)
    /\ tcb[last.ret].image = "app"

\* C11: after sys_exit(code) the caller is no longer the current task and is
\* not in the ready queue; as long as its control block exists its status is
\* Zombie with exit_code = code, it is never queued, never current and never
\* dispatched again, and it ceases to exist only when its parent reaps it
\* or when the parent that holds it is itself destroyed.
C11_Exit ==
    [][/\ (last'.op = "exit" /\ SysExit(last'.arg)) =>
             /\ current' = None
             /\ CopiesIn(current, ready_queue') = 0
             /\ current \in live' =>
                   /\ tcb'[current].task_status = "Zombie"
                   /\ tcb'[current].exit_code = last'.arg
       /\ \A t \in live :
             tcb[t].task_status = "Zombie" =>
                /\ current' # t
                /\ CopiesIn(t, ready_queue') = 0
                /\ t \in live' =>
                      /\ tcb'[t].task_status = "Zombie"
                      /\ tcb'[t].exit_code = tcb[t].exit_code
                      /\ tcb'[t].dispatches = tcb[t].dispatches
                /\ t \notin live' =>
                      \/ /\ last'.op = "waitpid"
                         /\ last'.ret = t
                         /\ last'.task = tcb[t].parent
                      \/ tcb[t].parent \in live \ live']_vars

\* Another task was dispatched while a task that exited with code 1 is still
\* a Zombie.
C11_Witness ==
    /\ last.op = "run_tasks"
    /\ \E t \in live \ {current} :
          tcb[t].task_status = "Zombie" /\ tcb[t].exit_code = 1

\* C12: for every task and every syscall id s, the table sys_task_info
\* reports holds for s the number of times the task has invoked s since it
\* was created, 0 for an id it never invoked; a task's invocations change no
\* other task's counts.
C12_TaskInfoCounts ==
    /\ \A t \in Pids : \A s \in SyscallIds :
          get_current_task_info(syscall_times[t])[s] = invoked[t][s]
    /\ last.op = "task_info" => TaskInfo_syscall_times = invoked[last.task]

\* The second sys_task_info of a forked task that made no other call, while
\* its parent has counted the fork and a yield.
C12_Witness ==
    /\ last.op = "task_info"
    /\ TaskInfo_syscall_times["task_info"] = 2
    /\ TaskInfo_syscall_times["fork"] = 0
    /\ TaskInfo_syscall_times["yield"] = 0
    /\ tcb[last.task].parent # None
    /\ invoked[tcb[last.task].parent]["fork"] = 1
    /\ invoked[tcb[last.task].parent]["yield"] = 1

\* C13: the assertion strong_count(&child) == 1 of sys_waitpid never fails:
\* every Zombie child is owned by its parent's children list alone (once
\* removed from the list, the removed handle is the only owner), and no
\* Zombie task is held by the ready queue or by the processor's current slot.
C13_ReapSoleOwner ==
    /\ ~panicked
    /\ \A t \in live :
          tcb[t].task_status = "Zombie" =>
             /\ CopiesIn(t, ready_queue) = 0
             /\ current # t
    /\ \A p \in live : \A i \in 1 .. Len(tcb[p].children) :
          LET child == tcb[p].children[i]
          IN  tcb[child].task_status = "Zombie" =>
                 strong_count(child, live, tcb, ready_queue, current) = 1

\* A reap that copied exit code 1 and destroyed the child, while another
\* task waits in the ready queue.
C13_Witness ==
    /\ last.op = "waitpid"
    /\ last.ret > 0
    /\ last.out = 1
    /\ last.ret \notin live
    /\ ready_queue # EmptyBag

\* C14: the child of a fork starts with the mapped regions its parent has at
\* the fork, and the two address spaces are independent: a sys_mmap or
\* sys_munmap changes no address space but the caller's.
C14_ForkAddressSpace ==
    [][/\ (last'.op = "fork" /\ last'.ret \in live' \ live) =>
             /\ tcb'[last'.ret].memory_set = tcb[current].memory_set
             /\ tcb'[current].memory_set = tcb[current].memory_set
       /\ last'.op \in {"mmap", "munmap"} =>
             \A t \in Pids \ {current} : tcb'[t].memory_set = tcb[t].memory_set]_vars

\* A parent mapped page 0, forked, and then mapped page 1: the child still
\* has page 0 alone.
C14_Witness ==
    /\ last.op = "mmap"
    /\ last.ret = 0
    /\ Mapped(tcb[last.task].memory_set) = {0, 1}
    /\ \E c \in Range(tcb[last.task].children) : Mapped(tcb[c].memory_set) = {0}

\* C15: a sys_mmap succeeds only if both its start and its end (start + len)
\* are page-aligned; with a page-aligned start and a len that is not a
\* multiple of the page size it returns -1 and maps nothing.
C15_MmapEndAligned ==
    [][LET s == last'.arg
           l == last'.arg2
           p == last'.arg3
       IN (last'.op = "mmap" /\ SysMmap(s, l, p)) =>
             /\ last'.ret = 0 => (s % PAGE_SIZE = 0 /\ (s + l) % PAGE_SIZE = 0)
             /\ (s % PAGE_SIZE = 0 /\ l % PAGE_SIZE # 0) =>
                   /\ last'.ret = -1
                   /\ tcb' = tcb]_vars

\* A request of one byte at the start of page 1 with the bits R | W, by a
\* task that has nothing mapped, reached the map operation and was refused.
C15_Witness ==
    /\ last.op = "mmap"
    /\ last.arg = PAGE_SIZE
    /\ last.arg2 = 1
    /\ last.arg3 = 3
    /\ last.out = 1
    /\ last.ret = -1
    /\ Mapped(tcb[last.task].memory_set) = {}

\* C16: sys_yield takes the caller out of the processor's current slot, makes
\* it Ready and adds it to the ready queue, leaving the processor to the
\* dispatch loop; the dispatch that resumes the task returns 0 from the call.
C16_Yield ==
    [][/\ (last'.op = "yield" /\ SysYield) =>
             /\ current' = None
             /\ tcb'[current].task_status = "Ready"
             /\ tcb'[current].resume = "sys_yield"
             /\ ready_queue' = ready_queue (+) SetToBag({current})
             /\ CopiesIn(current, ready_queue') = 1
             /\ live' = live
       /\ \A t \in live :
             (last'.op = "run_tasks" /\ current' = t /\ tcb[t].resume = "sys_yield") =>
                /\ last'.out = 1
                /\ last'.ret = 0]_vars

\* A task that had yielded was dispatched again, ahead of a task still
\* waiting in the ready queue.
C16_Witness ==
    /\ last.op = "run_tasks"
    /\ last.out = 1
    /\ last.ret = 0
    /\ tcb[current].dispatches = 2
    /\ ready_queue # EmptyBag

\* C17: in every reachable state at most one task has status Running, and a
\* Running task is the one installed in the processor's current slot.
C17_OneRunning ==
    /\ Cardinality({t \in live : tcb[t].task_status = "Running"}) <= 1
    /\ \A t \in live : tcb[t].task_status = "Running" => current = t

\* A task runs while one of the two others is Ready in the queue and the
\* other is a Zombie.
C17_Witness ==
    /\ current # None
    /\ tcb[current].task_status = "Running"
    /\ \E t \in live : tcb[t].task_status = "Ready" /\ BagIn(t, ready_queue)
    /\ \E t \in live : tcb[t].task_status = "Zombie"

\* C18: every change of a task's status is Ready -> Running in the dispatch
\* loop, Running -> Ready in the yield of that task, or Running -> Zombie in
\* the exit of that task; no task leaves Zombie, and the dispatch loop
\* fetches and marks Running only a Ready task, never a Zombie.
C18_StatusTransitions ==
    [][/\ \A t \in live \cap live' :
             tcb'[t].task_status # tcb[t].task_status =>
                \/ /\ tcb[t].task_status = "Ready"
                   /\ tcb'[t].task_status = "Running"
                   /\ last'.op = "run_tasks"
                   /\ current' = t
                \/ /\ tcb[t].task_status = "Running"
                   /\ tcb'[t].task_status = "Ready"
                   /\ last'.op = "yield"
                   /\ last'.task = t
                \/ /\ tcb[t].task_status = "Running"
                   /\ tcb'[t].task_status = "Zombie"
                   /\ last'.op = "exit"
                   /\ last'.task = t
       /\ last'.op = "run_tasks" =>
             /\ BagIn(current', ready_queue)
             /\ tcb[current'].task_status = "Ready"
       /\ \A t \in BagToSet(ready_queue') : tcb'[t].task_status = "Ready"]_vars

\* A task that was dispatched, yielded, was dispatched again and exited.
C18_Witness ==
    /\ last.op = "exit"
    /\ last.task \in live
    /\ tcb[last.task].task_status = "Zombie"
    /\ tcb[last.task].dispatches = 2

\* C19: in every reachable state every task's priority is >= 2, whatever
\* sys_set_priority, fork and spawn calls have occurred, so the dispatch loop
\* never computes a stride with a priority <= 1.
C19_PrioAtLeast2 ==
    /\ \A t \in live : tcb[t].prio >= 2
    /\ (last.op = "run_tasks" /\ current # None) => BIG_STRIDE \div tcb[current].prio <= BIG_STRIDE \div 2

\* A task of priority 2 with a child it forked at that priority and a child
\* it spawned was dispatched a second time.
C19_Witness ==
    /\ last.op = "run_tasks"
    /\ tcb[current].prio = 2
    /\ tcb[current].dispatches = 2
    /\ \E c \in Range(tcb[current].children) : tcb[c].prio = 2
    /\ \E c \in Range(tcb[current].children) : tcb[c].prio = DefaultPrio /\ tcb[c].image = "app"

\* C20 as stated: every dispatch increases the pass of the chosen task by
\* BIG_STRIDE / priority, once, changes no other pass, and never takes a
\* pass to a smaller value (the increment does not wrap around).
C20_Original ==
    [][\A t \in live :
          (last'.op = "run_tasks" /\ current' = t) =>
             /\ tcb'[t].pass = tcb[t].pass + (BIG_STRIDE \div tcb[t].prio)
             /\ tcb'[t].pass >= tcb[t].pass
             /\ \A u \in live \ {t} : tcb'[u].pass = tcb[u].pass]_vars

\* A dispatch took the pass of the chosen task around the end of its range:
\* the new pass is smaller than one stride.
C20_Witness ==
    /\ last.op = "run_tasks"
    /\ tcb[current].dispatches > 0
    /\ tcb[current].pass < BIG_STRIDE \div tcb[current].prio

\* C21: start_time is written exactly once, at the task's first dispatch.
\* A task that is not started becomes started only by being dispatched, and
\* its start_time is then the reading of the timer; every dispatch leaves the
\* task started; and once started a task stays started with the same
\* start_time, whatever happens next, later dispatches included.
C21_StartTimeOnce ==
    [][\A t \in live \cap live' :
          /\ (~tcb[t].started /\ tcb'[t].started) =>
                 /\ last'.op = "run_tasks" /\ last'.task = t /\ current' = t
                 /\ tcb'[t].start_time = clock
          /\ (last'.op = "run_tasks" /\ last'.task = t /\ tcb'[t] # tcb[t]) =>
                 tcb'[t].started
          /\ tcb[t].started =>
                 /\ tcb'[t].started
                 /\ tcb'[t].start_time = tcb[t].start_time
          /\ ~tcb'[t].started => tcb'[t].start_time = tcb[t].start_time]_vars

\* A task first dispatched at time 1 is dispatched again, after a yield, at
\* time 2, and its start_time is still 1.
C21_Witness ==
    /\ last.op = "run_tasks"
    /\ last.out = 1
    /\ current = last.task
    /\ tcb[current].dispatches = 2
    /\ clock = 2
    /\ tcb[current].start_time = 1
    /\ tcb[current].started

\* C22: every task that is not a Zombie is held in exactly one place, the
\* processor's current slot or the ready queue with exactly one entry; a
\* Zombie is held in neither; and the pass and the priority of a task change
\* only in a step in which it is the current task before or after the step,
\* so never while the task stays in the queue.
Queued(t) == CopiesIn(t, ready_queue)

C22_OnePlace ==
    /\ [](\A t \in Pids :
             /\ Queued(t) <= 1
             /\ (Queued(t) = 1 \/ current = t) => t \in live
             /\ (t \in live /\ tcb[t].task_status # "Zombie") =>
                    (Queued(t) = 1) # (current = t)
             /\ (t \in live /\ tcb[t].task_status = "Zombie") =>
                    (Queued(t) = 0 /\ current # t))
    /\ [][\A t \in live \cap live' :
             (tcb'[t].pass # tcb[t].pass \/ tcb'[t].prio # tcb[t].prio) =>
                 /\ current = t \/ current' = t
                 /\ ~(Queued(t) = 1 /\ Queued(t)' = 1)]_vars

\* A task that has run and yielded waits in the queue with its pass advanced
\* while another task is current and a third is a Zombie held nowhere.
C22_Witness ==
    /\ current # None
    /\ \E t \in live \ {current} :
          /\ Queued(t) = 1
          /\ tcb[t].dispatches > 0
          /\ tcb[t].pass > 0
    /\ \E z \in live : tcb[z].task_status = "Zombie" /\ Queued(z) = 0

\* C23 as stated: no starvation.  When the dispatch loop keeps running and
\* every dispatched task eventually yields, a task placed in the ready queue
\* is eventually fetched and made the current task.
C23_Original == \A t \in Pids : (Queued(t) = 1) ~> (current = t)

\* The state from which a task is never dispatched again: it waits in the
\* queue with a pass that the other task, whose pass has wrapped, cannot
\* reach, since every pass the other task takes is a multiple of its stride
\* below the modulus.
C23_Witness ==
    \E t \in {0, 1} :
        LET u == 1 - t
            stride_u == BIG_STRIDE \div tcb[u].prio
        IN  /\ Queued(t) = 1
            /\ current = u
            /\ tcb[u].dispatches * stride_u >= PassModulus
            /\ tcb[u].pass % stride_u = 0
            /\ tcb[t].pass > PassModulus - stride_u

\* C24: at every context switch, in run_tasks and in schedule, no exclusive
\* access to PROCESSOR, TASK_MANAGER or the inner cell of a TaskControlBlock
\* is still held, none is held when a handler returns, and no access ever
\* panics: the comparisons of the ready queue in add and fetch, like every
\* other access, find the cell they need free.
C24_NoBorrowAtSwitch ==
    /\ ~borrowed.failed
    /\ borrowed.at_switch = {}
    /\ borrowed.held = {}

\* A task that yielded (switch in schedule) is dispatched again (switch in
\* run_tasks) from a queue whose elements were compared while another task
\* waited.
C24_Witness ==
    /\ last.op = "run_tasks"
    /\ last.out = 1
    /\ tcb[current].dispatches = 2
    /\ Cardinality(borrowed.compared) >= 2
    /\ borrowed.held = {}
    /\ ~borrowed.failed

\* The entries of the directory that refer to an inode, and that carry a name.
Refs(dir, inode_id) == Cardinality({i \in 1..Len(dir) : dir[i].inode_number = inode_id})
InUse(dir) == Cardinality({i \in 1..Len(dir) : dir[i].inode_number # 0})

\* C25 as stated: the nlink of every file inode equals the number of
\* directory entries that refer to it; linkat of an existing name returns 0,
\* adds exactly one entry and adds 1 to the nlink of the file; unlinkat of an
\* existing name returns 0, removes exactly one entry, subtracts 1 from the
\* nlink of the file and frees its data exactly when the nlink reaches 0; and
\* both return -1 and change nothing when the name does not exist.
C25_Original ==
    /\ [](\A id \in InodeIds \ {RootInode} :
             disk_inodes[id].allocated => disk_inodes[id].nlink = Refs(root_dir, id))
    /\ [][LET id == find_inode_id(fs_call'.name, root_dir)
          IN  /\ (fs_call'.op = "linkat" /\ id # None) =>
                     /\ fs_call'.ret = 0
                     /\ InUse(root_dir') = InUse(root_dir) + 1
                     /\ Refs(root_dir', id) = Refs(root_dir, id) + 1
                     /\ disk_inodes'[id].nlink = disk_inodes[id].nlink + 1
              /\ (fs_call'.op = "unlinkat" /\ id # None) =>
                     /\ fs_call'.ret = 0
                     /\ InUse(root_dir') = InUse(root_dir) - 1
                     /\ Refs(root_dir', id) = Refs(root_dir, id) - 1
                     /\ disk_inodes'[id].nlink = disk_inodes[id].nlink - 1
                     /\ disk_inodes'[id].size =
                            IF disk_inodes'[id].nlink = 0 THEN 0 ELSE disk_inodes[id].size
              /\ (fs_call'.op \in {"linkat", "unlinkat"} /\ id = None) =>
                     /\ fs_call'.ret = -1
                     /\ UNCHANGED <<root_dir, disk_inodes>>]_vars

\* After an unlinkat that returned 0, a file with data has no entry left in
\* the directory while its nlink is still positive.
C25_Witness ==
    /\ fs_call.op = "unlinkat"
    /\ fs_call.ret = 0
    /\ \E id \in InodeIds \ {RootInode} :
          /\ disk_inodes[id].allocated
          /\ Refs(root_dir, id) = 0
          /\ disk_inodes[id].nlink > 0
          /\ disk_inodes[id].size > 0

====
